---- MODULE Spec2Model ----
(***************************************************************************)
(* OpenAIStore (backend/open_webui/retrieval/vector/dbs/openai.py): the     *)
(* vector-database adapter over a remote vector-store service.              *)
(*                                                                          *)
(* The adapter's only own state is the cached `index`.  Everything else     *)
(* lives in the remote service, which the `remote_*` operators stand for:   *)
(* one operator per remote call the adapter issues, with the arguments the  *)
(* call site passes and the response fields the adapter reads.  Of the      *)
(* service itself they assume what its interface says: stores are listed    *)
(* in creation order and their ids are never reused, an upsert replaces an  *)
(* item of the same id and appends any other, a search answers with the     *)
(* first top_k items of the store, and a call on an unknown store fails.    *)
(*                                                                          *)
(* Every adapter method is one operator over a world record                 *)
(* w = [stores, nextId, index, created, calls], where calls is the sequence *)
(* of remote calls the running method has issued so far; it returns         *)
(* [w |-> the world after the call, ret |-> the value returned or the       *)
(* exception raised].  The actions apply these operators to the state.      *)
(***************************************************************************)
EXTENDS Integers, Sequences, FiniteSets, TLC

VARIABLES
    stores,    \* remote: the vector stores in listing order, <<[id, name, items]>>
    nextId,    \* remote: the id the next created store gets (ids are never reused)
    index,     \* adapter: self.index, the cached store id, or None
    created,   \* history: ids of the stores this adapter instance created
    pc,        \* per caller: the method it is inside and the remote call it is at
    writer     \* history: the caller whose call last assigned self.index (0: none)

vars == <<stores, nextId, index, created, pc, writer>>

----------------------------------------------------------------------------
(* Bounds of the model *)

\* stores this adapter creates in one behaviour
MaxCreated == 1
\* items in one add_items_to_collection batch
MaxBatch == 2
\* items the collection of the paging specification starts with and grows to
PageStart == 998
MaxPageItems == 1003
\* query vectors handed to search
MaxVecs == 2

----------------------------------------------------------------------------
(* Python values *)

\* Python's None
None == "None"
\* Optional[...] arguments and fields of list, dict or number type: None or a value
NoneOpt == <<>>
Some(v) == <<v>>
\* what a call returned, or the exception it raised
RetNone == [kind |-> "None"]
RetBool(b) == [kind |-> "bool", value |-> b]
RetList(l) == [kind |-> "list", value |-> l]
Raised(error) == [kind |-> "raised", error |-> error]
\* the empty dict {}
EmptyDict == [k \in {} |-> None]

\* dict.get(k)
DictGet(d, k) == IF k \in DOMAIN d THEN d[k] ELSE None

\* d[k] = v
DictSet(d, k, v) == [x \in (DOMAIN d) \cup {k} |-> IF x = k THEN v ELSE d[x]]

\* {k: v for k, v in d.items() if k != key}
DictWithout(d, key) == [x \in (DOMAIN d) \ {key} |-> d[x]]

\* Python truthiness of an Optional[Dict] / Optional[List] argument
TruthyDict(o) == o # NoneOpt /\ DOMAIN o[1] # {}
TruthyList(o) == o # NoneOpt /\ Len(o[1]) > 0

\* s[:n] for n >= 0
Prefix(s, n) == SubSeq(s, 1, IF n < Len(s) THEN n ELSE Len(s))

\* s[:n] with Python's meaning of a negative n
PySlice(s, n) ==
    IF n >= 0 THEN Prefix(s, n)
    ELSE SubSeq(s, 1, IF Len(s) + n > 0 THEN Len(s) + n ELSE 0)

----------------------------------------------------------------------------
(* Inputs *)

\* collection names handed to the adapter
Names == {"A", "B"}
\* item ids
Ids == {"x", "y"}
\* item texts
Texts == {"t1", "t2"}
\* metadata keys; "text" is the key the adapter reserves
ReservedKey == "text"
\* filters callers pass to query and delete
Filters ==
    { EmptyDict,
      [k \in {"a"} |-> "v1"],
      [k \in {"a", "b"} |-> IF k = "a" THEN "v1" ELSE "v2"],
      [k \in {"a", "b"} |-> IF k = "a" THEN "v1" ELSE "v3"],
      [k \in {"c"} |-> None] }
\* a vector is a sequence of numbers; one dimension is enough here
ZeroVector == <<0>>
QueryVectors == {<<1>>, <<2>>}
\* the embedding the remote model returns for a text
Embed(t) == IF t = "t1" THEN <<1>> ELSE <<2>>
\* the provider's score of a stored vector against a query vector
Score(q, v) == q[1] * v[1]

\* self.index = None
NoIndex == 0
\* an item without a "metadata" entry (or with metadata None)
NoRef == 0

\* top_k of the listing searches (delete_collection and list_items)
PageSize == 1000

----------------------------------------------------------------------------
(* The remote service, one operator per call the adapter issues *)

Log(w, c) == [w EXCEPT !.calls = Append(@, c)]

\* position of the store with this id in the listing, 0 when there is none
StorePos(ss, id) ==
    LET at == {i \in 1..Len(ss) : ss[i].id = id}
    IN  IF at = {} THEN 0 ELSE CHOOSE i \in at : TRUE

\* position of the item with this id in a store's items, 0 when there is none
ItemPos(items, id) ==
    LET at == {i \in 1..Len(items) : items[i].id = id}
    IN  IF at = {} THEN 0 ELSE CHOOSE i \in at : TRUE

\* openai.request(method="GET", url="/vector_stores"): resp["data"]
remote_list(w) ==
    [w |-> Log(w, [call |-> "list"]),
     data |-> [i \in 1..Len(w.stores) |-> [id |-> w.stores[i].id, name |-> w.stores[i].name]]]

\* openai.request(method="POST", url="/vector_stores", json={"name": ...}): resp["id"]
remote_create(w, name) ==
    [w |-> Log([w EXCEPT !.stores = Append(@, [id |-> w.nextId, name |-> name, items |-> <<>>]),
                         !.nextId = @ + 1,
                         !.created = @ \cup {w.nextId}],
               [call |-> "create", name |-> name]),
     id |-> w.nextId]

\* one vector upserted into a store's items: replaced by id, appended otherwise
UpsertOne(items, v) ==
    LET p == ItemPos(items, v.id)
    IN  IF p # 0 THEN [items EXCEPT ![p] = v] ELSE Append(items, v)

\* the items after the first n of the vectors are upserted, in order
RECURSIVE UpsertFirst(_, _, _)
UpsertFirst(items, vectors, n) ==
    IF n = 0 THEN items
    ELSE UpsertOne(UpsertFirst(items, vectors, n - 1), vectors[n])

UpsertAll(items, vectors) == UpsertFirst(items, vectors, Len(vectors))

\* openai.Vector.upsert(index=..., vectors=...)
remote_upsert(w, idx, vectors) ==
    LET p == StorePos(w.stores, idx)
        logged == Log(w, [call |-> "upsert", index |-> idx, vectors |-> vectors])
    IN  IF p = 0 THEN [w |-> logged, ok |-> FALSE]
        ELSE [w |-> [logged EXCEPT !.stores[p].items = UpsertAll(@, vectors)], ok |-> TRUE]

\* openai.Vector.search(index=..., vector=..., top_k=..., include=...): resp["data"]
remote_search(w, idx, vector, top_k, include) ==
    LET p == StorePos(w.stores, idx)
        logged == Log(w, [call |-> "search", index |-> idx, vector |-> vector,
                          top_k |-> top_k, include |-> include])
        hit(it) == [id |-> it.id, score |-> Score(vector, it.values),
                    metadata |-> it.metadata,
                    values |-> IF "values" \in include THEN Some(it.values) ELSE NoneOpt]
    IN  IF p = 0 THEN [w |-> logged, ok |-> FALSE, data |-> <<>>]
        ELSE [w |-> logged, ok |-> TRUE,
              data |-> LET top == Prefix(w.stores[p].items, top_k)
                       IN  [n \in 1..Len(top) |-> hit(top[n])]]

\* openai.Vector.delete(index=..., ids=...)
remote_delete_ids(w, idx, ids) ==
    LET p == StorePos(w.stores, idx)
        logged == Log(w, [call |-> "delete_ids", index |-> idx, ids |-> ids])
        doomed == {ids[i] : i \in 1..Len(ids)}
        gone(it) == it.id \in doomed
    IN  IF p = 0 THEN [w |-> logged, ok |-> FALSE]
        ELSE [w |-> [logged EXCEPT !.stores[p].items = SelectSeq(@, LAMBDA it : ~gone(it))],
              ok |-> TRUE]

\* the provider's metadata filter: every filter pair is a pair of the metadata
ProviderMatch(md, f) == \A k \in DOMAIN f : k \in DOMAIN md /\ md[k] = f[k]

\* openai.Vector.delete(index=..., filter={"metadata": filter})
remote_delete_filter(w, idx, f) ==
    LET p == StorePos(w.stores, idx)
        logged == Log(w, [call |-> "delete_filter", index |-> idx, filter |-> f])
    IN  IF p = 0 THEN [w |-> logged, ok |-> FALSE]
        ELSE [w |-> [logged EXCEPT !.stores[p].items =
                        SelectSeq(@, LAMBDA it : ~ProviderMatch(it.metadata, f))],
              ok |-> TRUE]

\* openai.request(method="DELETE", url=f"/vector_stores/{vid}")
remote_delete_store(w, vid) ==
    Log([w EXCEPT !.stores = SelectSeq(@, LAMBDA s : s.id # vid)],
        [call |-> "delete_store", id |-> vid])

----------------------------------------------------------------------------
(* OpenAIStore *)

\* has_collection: the first listed store of that name sets self.index
RECURSIVE FirstNamed(_, _)
FirstNamed(data, name) ==
    IF data = <<>> THEN NoIndex
    ELSE IF Head(data).name = name THEN Head(data).id
    ELSE FirstNamed(Tail(data), name)

\* has_collection as it would be if a miss cleared the cache
has_collection_clearing(w, collection_name) ==
    LET resp == remote_list(w)
        found == FirstNamed(resp.data, collection_name)
    IN  [w |-> [resp.w EXCEPT !.index = found], ret |-> RetBool(found # NoIndex)]

\* has_collection as it would be if a cached index were trusted without listing
has_collection_cached(w, collection_name) ==
    LET resp == remote_list(w)
        found == FirstNamed(resp.data, collection_name)
    IN  IF w.index # NoIndex THEN [w |-> w, ret |-> RetBool(TRUE)]
        ELSE IF found # NoIndex
        THEN [w |-> [resp.w EXCEPT !.index = found], ret |-> RetBool(TRUE)]
        ELSE [w |-> resp.w, ret |-> RetBool(FALSE)]

\* has_collection as it would be if it did not store the id it found
has_collection_unresolved(w, collection_name) ==
    LET resp == remote_list(w)
        found == FirstNamed(resp.data, collection_name)
    IN  [w |-> resp.w, ret |-> RetBool(found # NoIndex)]

has_collection(w, collection_name) ==
    LET resp == remote_list(w)
        found == FirstNamed(resp.data, collection_name)
    IN  IF found # NoIndex
        THEN [w |-> [resp.w EXCEPT !.index = found], ret |-> RetBool(TRUE)]
        ELSE [w |-> resp.w, ret |-> RetBool(FALSE)]

\* create_collection as it would be if the new id were not stored
create_collection_uncached(w, collection_name) ==
    [w |-> remote_create(w, collection_name).w, ret |-> RetNone]

create_collection(w, collection_name) ==
    LET resp == remote_create(w, collection_name)
    IN  [w |-> [resp.w EXCEPT !.index = resp.id], ret |-> RetNone]

\* the loop over zip(items, embed_resp.data), after its first n rounds.  `heap`
\* holds the metadata dicts by reference: an item's own dict is mutated in place
\* (md["text"] = ...) and the vector keeps the reference; an absent, None or
\* empty metadata gives a fresh dict ("or {}").
RECURSIVE build_rounds(_, _, _, _)
build_rounds(items, embeds, heap, n) ==
    IF n = 0 THEN [heap |-> heap, vectors |-> <<>>]
    ELSE LET before == build_rounds(items, embeds, heap, n - 1)
             item == items[n]
             fresh == item.metadata = NoRef \/ DOMAIN before.heap[item.metadata] = {}
             ref == IF fresh THEN Len(before.heap) + 1 ELSE item.metadata
             heap1 == IF fresh THEN Append(before.heap, EmptyDict) ELSE before.heap
         IN  [heap |-> [heap1 EXCEPT ![ref] = DictSet(@, ReservedKey, item.text)],
              vectors |-> Append(before.vectors,
                                 [id |-> item.id, values |-> embeds[n], metadata |-> ref])]

\* zip stops at the shorter of the two
build_vectors(items, embeds, heap) ==
    build_rounds(items, embeds, heap, IF Len(items) < Len(embeds) THEN Len(items) ELSE Len(embeds))

\* the vectors as the upsert call sends them: each reference read when the call is made
SentVectors(built) ==
    [i \in 1..Len(built.vectors) |->
        [built.vectors[i] EXCEPT !.metadata = built.heap[built.vectors[i].metadata]]]

\* add_items_to_collection as it would be if a failure deleted the store the
\* call had created
add_items_to_collection_rollback(w, collection_name, items, heap, fail) ==
    LET has == has_collection(w, collection_name)
        w1 == IF has.ret.value THEN has.w ELSE create_collection(has.w, collection_name).w
        texts == [i \in 1..Len(items) |-> items[i].text]
        w2 == Log(w1, [call |-> "embed", input |-> texts])
        embeds == [i \in 1..Len(texts) |-> Embed(texts[i])]
        built == build_vectors(items, embeds, heap)
        up == remote_upsert(w2, w2.index, SentVectors(built))
        undone == IF has.ret.value THEN w2 ELSE remote_delete_store(w2, w2.index)
    IN  IF fail # "none" THEN [w |-> undone, ret |-> Raised("ProviderError")]
        ELSE IF ~up.ok THEN [w |-> up.w, ret |-> Raised("ProviderError")]
        ELSE [w |-> up.w, ret |-> RetNone]

\* `fail` names the remote call that fails, if any: "none", "embed" or "upsert"
add_items_to_collection(w, collection_name, items, heap, fail) ==
    LET has == has_collection(w, collection_name)
        w1 == IF has.ret.value THEN has.w ELSE create_collection(has.w, collection_name).w
        texts == [i \in 1..Len(items) |-> items[i].text]
        w2 == Log(w1, [call |-> "embed", input |-> texts])
        embeds == [i \in 1..Len(texts) |-> Embed(texts[i])]
        built == build_vectors(items, embeds, heap)
        up == remote_upsert(w2, w2.index, SentVectors(built))
    IN  IF fail = "embed" THEN [w |-> w2, ret |-> Raised("ProviderError")]
        ELSE IF fail = "upsert"
             THEN [w |-> Log(w2, [call |-> "upsert", index |-> w2.index,
                                  vectors |-> SentVectors(built)]),
                   ret |-> Raised("ProviderError")]
        ELSE IF ~up.ok THEN [w |-> up.w, ret |-> Raised("ProviderError")]
        ELSE [w |-> up.w, ret |-> RetNone]

\* search as it would be if it took the last of the vectors (vectors[-1])
search_last_vector(w, collection_name, vectors, limit) ==
    LET has == has_collection(w, collection_name)
        resp == remote_search(has.w, has.w.index, vectors[Len(vectors)], limit, {"metadata"})
    IN  IF ~has.ret.value THEN [w |-> has.w, ret |-> RetNone]
        ELSE IF Len(vectors) = 0 THEN [w |-> has.w, ret |-> Raised("IndexError")]
        ELSE IF ~resp.ok THEN [w |-> resp.w, ret |-> Raised("ProviderError")]
        ELSE [w |-> resp.w,
              ret |-> [kind |-> "SearchResult",
                       ids |-> << [n \in 1..Len(resp.data) |-> resp.data[n].id] >>,
                       distances |-> << [n \in 1..Len(resp.data) |-> resp.data[n].score] >>,
                       documents |-> << [n \in 1..Len(resp.data) |->
                                        DictGet(resp.data[n].metadata, ReservedKey)] >>,
                       metadatas |-> << [n \in 1..Len(resp.data) |->
                                        DictWithout(resp.data[n].metadata, ReservedKey)] >>]]

search(w, collection_name, vectors, limit) ==
    LET has == has_collection(w, collection_name)
        resp == remote_search(has.w, has.w.index, vectors[1], limit, {"metadata"})
    IN  IF ~has.ret.value THEN [w |-> has.w, ret |-> RetNone]
        ELSE IF Len(vectors) = 0 THEN [w |-> has.w, ret |-> Raised("IndexError")]
        ELSE IF ~resp.ok THEN [w |-> resp.w, ret |-> Raised("ProviderError")]
        ELSE [w |-> resp.w,
              ret |-> [kind |-> "SearchResult",
                       ids |-> << [n \in 1..Len(resp.data) |-> resp.data[n].id] >>,
                       distances |-> << [n \in 1..Len(resp.data) |-> resp.data[n].score] >>,
                       documents |-> << [n \in 1..Len(resp.data) |->
                                        DictGet(resp.data[n].metadata, ReservedKey)] >>,
                       metadatas |-> << [n \in 1..Len(resp.data) |->
                                        DictWithout(resp.data[n].metadata, ReservedKey)] >>]]

\* delete_collection as it would be if it listed one item only (top_k=1)
delete_collection_first_hit(w, collection_name) ==
    LET has == has_collection(w, collection_name)
        resp == remote_search(has.w, has.w.index, ZeroVector, 1, {"metadata"})
        ids == [n \in 1..Len(resp.data) |-> resp.data[n].id]
        del == remote_delete_ids(resp.w, resp.w.index, ids)
    IN  IF ~has.ret.value THEN [w |-> has.w, ret |-> RetNone]
        ELSE IF ~resp.ok THEN [w |-> resp.w, ret |-> Raised("ProviderError")]
        ELSE IF Len(ids) > 0 THEN [w |-> del.w, ret |-> RetNone]
        ELSE [w |-> resp.w, ret |-> RetNone]

\* delete_collection as it would be if it deleted the store itself
delete_collection_dropping(w, collection_name) ==
    LET has == has_collection(w, collection_name)
    IN  IF ~has.ret.value THEN [w |-> has.w, ret |-> RetNone]
        ELSE [w |-> remote_delete_store(has.w, has.w.index), ret |-> RetNone]

delete_collection(w, collection_name) ==
    LET has == has_collection(w, collection_name)
        resp == remote_search(has.w, has.w.index, ZeroVector, PageSize, {"metadata"})
        ids == [n \in 1..Len(resp.data) |-> resp.data[n].id]
        del == remote_delete_ids(resp.w, resp.w.index, ids)
    IN  IF ~has.ret.value THEN [w |-> has.w, ret |-> RetNone]
        ELSE IF ~resp.ok THEN [w |-> resp.w, ret |-> Raised("ProviderError")]
        ELSE IF Len(ids) > 0 THEN [w |-> del.w, ret |-> RetNone]
        ELSE [w |-> resp.w, ret |-> RetNone]

\* list_items as it would be if it asked for every item of the store
list_items_unbounded(w, collection_name) ==
    LET has == has_collection(w, collection_name)
        resp == remote_search(has.w, has.w.index, ZeroVector,
                              Len(w.stores[StorePos(w.stores, has.w.index)].items),
                              {"values", "metadata"})
        item(hit) == [id |-> hit.id,
                      text |-> DictGet(hit.metadata, ReservedKey),
                      vector |-> hit.values,
                      metadata |-> DictWithout(hit.metadata, ReservedKey)]
    IN  IF ~has.ret.value THEN [w |-> has.w, ret |-> RetList(<<>>)]
        ELSE IF ~resp.ok THEN [w |-> resp.w, ret |-> Raised("ProviderError")]
        ELSE [w |-> resp.w, ret |-> RetList([n \in 1..Len(resp.data) |-> item(resp.data[n])])]

list_items(w, collection_name) ==
    LET has == has_collection(w, collection_name)
        resp == remote_search(has.w, has.w.index, ZeroVector, PageSize,
                              {"values", "metadata"})
        item(hit) == [id |-> hit.id,
                      text |-> DictGet(hit.metadata, ReservedKey),
                      vector |-> hit.values,
                      metadata |-> DictWithout(hit.metadata, ReservedKey)]
    IN  IF ~has.ret.value THEN [w |-> has.w, ret |-> RetList(<<>>)]
        ELSE IF ~resp.ok THEN [w |-> resp.w, ret |-> Raised("ProviderError")]
        ELSE [w |-> resp.w, ret |-> RetList([n \in 1..Len(resp.data) |-> item(resp.data[n])])]

insert(w, collection_name, items, heap, fail) ==
    add_items_to_collection(w, collection_name, items, heap, fail)

upsert(w, collection_name, items, heap, fail) ==
    add_items_to_collection(w, collection_name, items, heap, fail)

\* the result as it would be if empty metadata were left out of metadatas
GetResult_skipping(items) ==
    [kind |-> "GetResult",
     ids |-> << [n \in 1..Len(items) |-> items[n].id] >>,
     documents |-> << [n \in 1..Len(items) |-> items[n].text] >>,
     metadatas |-> LET kept == SelectSeq(items, LAMBDA it : DOMAIN it.metadata # {})
                   IN  << [n \in 1..Len(kept) |-> kept[n].metadata] >>]

GetResult(items) ==
    [kind |-> "GetResult",
     ids |-> << [n \in 1..Len(items) |-> items[n].id] >>,
     documents |-> << [n \in 1..Len(items) |-> items[n].text] >>,
     metadatas |-> << [n \in 1..Len(items) |-> items[n].metadata] >>]

\* all(it.metadata.get(k) == v for k, v in filter.items())
Matches(metadata, filter) == \A k \in DOMAIN filter : DictGet(metadata, k) = filter[k]

\* query as it would be if an empty match were returned as an empty result
query_empty_present(w, collection_name, filter, limit) ==
    LET has == has_collection(w, collection_name)
        listed == list_items(has.w, collection_name)
        all == SelectSeq(listed.ret.value, LAMBDA it : Matches(it.metadata, filter))
        matched == IF limit # NoneOpt THEN PySlice(all, limit[1]) ELSE all
    IN  IF ~has.ret.value THEN [w |-> has.w, ret |-> RetNone]
        ELSE IF listed.ret.kind = "raised" THEN listed
        ELSE [w |-> listed.w, ret |-> GetResult(matched)]

\* query as it would be if the limit were not applied
query_ignoring_limit(w, collection_name, filter, limit) ==
    LET has == has_collection(w, collection_name)
        listed == list_items(has.w, collection_name)
        matched == SelectSeq(listed.ret.value, LAMBDA it : Matches(it.metadata, filter))
    IN  IF ~has.ret.value THEN [w |-> has.w, ret |-> RetNone]
        ELSE IF listed.ret.kind = "raised" THEN listed
        ELSE IF Len(matched) = 0 THEN [w |-> listed.w, ret |-> RetNone]
        ELSE [w |-> listed.w, ret |-> GetResult(matched)]

query(w, collection_name, filter, limit) ==
    LET has == has_collection(w, collection_name)
        listed == list_items(has.w, collection_name)
        all == SelectSeq(listed.ret.value, LAMBDA it : Matches(it.metadata, filter))
        matched == IF limit # NoneOpt THEN PySlice(all, limit[1]) ELSE all
    IN  IF ~has.ret.value THEN [w |-> has.w, ret |-> RetNone]
        ELSE IF listed.ret.kind = "raised" THEN listed
        ELSE IF Len(matched) = 0 THEN [w |-> listed.w, ret |-> RetNone]
        ELSE [w |-> listed.w, ret |-> GetResult(matched)]

get(w, collection_name) ==
    LET has == has_collection(w, collection_name)
        listed == list_items(has.w, collection_name)
    IN  IF ~has.ret.value THEN [w |-> has.w, ret |-> RetNone]
        ELSE IF listed.ret.kind = "raised" THEN listed
        ELSE IF Len(listed.ret.value) = 0 THEN [w |-> listed.w, ret |-> RetNone]
        ELSE [w |-> listed.w, ret |-> GetResult(listed.ret.value)]

\* delete as it would be if the filter were looked at before the ids
delete_filter_first(w, collection_name, ids, filter) ==
    LET has == has_collection(w, collection_name)
    IN  IF ~has.ret.value THEN [w |-> has.w, ret |-> RetNone]
        ELSE IF TruthyDict(filter)
             THEN [w |-> remote_delete_filter(has.w, has.w.index, filter[1]).w, ret |-> RetNone]
        ELSE IF TruthyList(ids)
             THEN [w |-> remote_delete_ids(has.w, has.w.index, ids[1]).w, ret |-> RetNone]
        ELSE [w |-> has.w, ret |-> RetNone]

\* delete as it would be if ids and filter were two independent conditions
delete_both(w, collection_name, ids, filter) ==
    LET has == has_collection(w, collection_name)
        w1 == IF TruthyList(ids) THEN remote_delete_ids(has.w, has.w.index, ids[1]).w ELSE has.w
        w2 == IF TruthyDict(filter) THEN remote_delete_filter(w1, w1.index, filter[1]).w ELSE w1
    IN  IF ~has.ret.value THEN [w |-> has.w, ret |-> RetNone]
        ELSE [w |-> w2, ret |-> RetNone]

delete(w, collection_name, ids, filter) ==
    LET has == has_collection(w, collection_name)
    IN  IF ~has.ret.value THEN [w |-> has.w, ret |-> RetNone]
        ELSE IF TruthyList(ids)
             THEN [w |-> remote_delete_ids(has.w, has.w.index, ids[1]).w, ret |-> RetNone]
        ELSE IF TruthyDict(filter)
             THEN [w |-> remote_delete_filter(has.w, has.w.index, filter[1]).w, ret |-> RetNone]
        ELSE [w |-> has.w, ret |-> RetNone]

RECURSIVE delete_each(_, _)
delete_each(w, data) ==
    IF data = <<>> THEN w
    ELSE delete_each(IF Head(data).id # NoIndex THEN remote_delete_store(w, Head(data).id)
                     ELSE w,
                     Tail(data))

\* reset as it would be if it deleted only the stores this instance created
reset_own_only(w) ==
    LET resp == remote_list(w)
    IN  [w |-> delete_each(resp.w, SelectSeq(resp.data, LAMBDA e : e.id \in w.created)),
         ret |-> RetNone]

reset(w) ==
    LET resp == remote_list(w)
    IN  [w |-> delete_each(resp.w, resp.data), ret |-> RetNone]

----------------------------------------------------------------------------
(* The callers: one action per public method, inputs drawn from the sets above *)

\* the caller's metadata dict objects, by reference (1..Len(InputHeap)); items
\* naming the same reference share the object.  The dict also carries a "text"
\* entry of the caller's own.
InputHeap ==
    << [k \in {"a", "b", "text"} |-> IF k = "a" THEN "v1" ELSE IF k = "b" THEN "v2" ELSE "t1"] >>

Item(id, text, ref) == [id |-> id, text |-> text, metadata |-> ref]
ItemInputs == { Item("x", "t1", NoRef), Item("x", "t1", 1), Item("y", "t2", 1) }

RECURSIVE SeqsUpTo(_, _)
SeqsUpTo(S, n) ==
    IF n = 0 THEN {<<>>}
    ELSE LET shorter == SeqsUpTo(S, n - 1)
         IN  shorter \cup {Append(q, e) : q \in {r \in shorter : Len(r) = n - 1}, e \in S}

Batches == SeqsUpTo(ItemInputs, MaxBatch)
VectorLists == SeqsUpTo(QueryVectors, MaxVecs)
SearchLimits == {1, 2}
QueryLimits == {NoneOpt, Some(0), Some(1), Some(-1)}
DeleteIds == {NoneOpt, Some(<<>>), Some(<<"x">>), Some(<<"y">>)}
DeleteFilters == {NoneOpt} \cup {Some(f) : f \in Filters}
Fails == {"none", "embed", "upsert"}
\* a failed call stores nothing whatever the batch: short batches are enough there
ShortBatches == {b \in Batches : Len(b) <= 1}
BatchesFor(fail) == IF fail = "none" THEN Batches ELSE ShortBatches

\* the world an adapter call starts in: the state, and no remote call issued yet
World == [stores |-> stores, nextId |-> nextId, index |-> index,
          created |-> created, calls |-> <<>>]

\* the world a next call starts in after a call left world w
After(w) == [w EXCEPT !.calls = <<>>]

\* the callers of the adapter instance
Callers == {1, 2}

\* a caller that is inside no method
Idle == [step |-> "idle", op |-> "", name |-> "", used |-> NoIndex, usedWriter |-> 0]

\* a whole method run by one caller, no other caller being inside a method
Do(result) ==
    /\ stores' = result.w.stores
    /\ nextId' = result.w.nextId
    /\ index' = result.w.index
    /\ created' = result.w.created
    /\ UNCHANGED <<pc, writer>>

\* items of the store with that id (none when there is no such store)
ItemsOf(w, id) == IF StorePos(w.stores, id) = 0 THEN <<>> ELSE w.stores[StorePos(w.stores, id)].items

\* whether a store of that name is listed
Exists(w, name) == \E i \in 1..Len(w.stores) : w.stores[i].name = name

\* the adapter creates at most MaxCreated stores in one behaviour
CanCreate(w) == Cardinality(w.created) < MaxCreated

\* the service starts with one store that another client created, named "A"
Init ==
    /\ stores = <<[id |-> 1, name |-> "A", items |-> <<>>]>>
    /\ nextId = 2
    /\ index = NoIndex
    /\ created = {}
    /\ pc = [p \in Callers |-> Idle]
    /\ writer = 0

CreateCollection ==
    \E c \in Names :
        /\ CanCreate(World)
        /\ Do(create_collection(World, c))

AddItems ==
    \E c \in Names, fail \in Fails : \E items \in BatchesFor(fail) :
        /\ Exists(World, c) \/ CanCreate(World)
        /\ Do(add_items_to_collection(World, c, items, InputHeap, fail))

Insert ==
    \E c \in Names, items \in ShortBatches :
        /\ Exists(World, c) \/ CanCreate(World)
        /\ Do(insert(World, c, items, InputHeap, "none"))

Upsert ==
    \E c \in Names, items \in ShortBatches :
        /\ Exists(World, c) \/ CanCreate(World)
        /\ Do(upsert(World, c, items, InputHeap, "none"))

Search ==
    \E c \in Names, vectors \in VectorLists, limit \in SearchLimits :
        Do(search(World, c, vectors, limit))

DeleteCollection ==
    \E c \in Names : Do(delete_collection(World, c))

ListItems ==
    \E c \in Names : Do(list_items(World, c))

HasCollection ==
    \E c \in Names : Do(has_collection(World, c))

Query ==
    \E c \in Names, filter \in Filters, limit \in QueryLimits :
        Do(query(World, c, filter, limit))

Get ==
    \E c \in Names : Do(get(World, c))

Delete ==
    \E c \in Names, ids \in DeleteIds, filter \in DeleteFilters :
        Do(delete(World, c, ids, filter))

Reset ==
    Do(reset(World))

Next ==
    \/ CreateCollection
    \/ AddItems
    \/ Insert
    \/ Upsert
    \/ Search
    \/ DeleteCollection
    \/ ListItems
    \/ HasCollection
    \/ Query
    \/ Get
    \/ Delete
    \/ Reset

Spec == Init /\ [][Next]_vars

----------------------------------------------------------------------------
(* Paging: the same adapter on a collection around the page size.  The       *)
(* collection "A" starts with PageStart items that earlier                   *)
(* add_items_to_collection calls stored, with numbered ids, and grows item   *)
(* by item to MaxPageItems; a second collection "B" holds one item.  The    *)
(* other actions are the ones above.                                         *)

\* an item as add_items_to_collection stores it when given no metadata
Stored(id, text) ==
    [id |-> id, values |-> Embed(text), metadata |-> DictSet(EmptyDict, ReservedKey, text)]

\* a batch of k items with the ids after `from`, all with the same text and no metadata
PageBatch(from, k, text) == [i \in 1..k |-> Item(from + i, text, NoRef)]

\* number of items in the store the name resolves to
CountOf(w, c) == Len(ItemsOf(w, has_collection(w, c).w.index))

InitPage ==
    /\ stores = << [id |-> 1, name |-> "A", items |-> [i \in 1..PageStart |-> Stored(i, "t1")]],
                   [id |-> 2, name |-> "B", items |-> <<Stored(1, "t2")>>] >>
    /\ nextId = 3
    /\ index = NoIndex
    /\ created = {}
    /\ pc = [p \in Callers |-> Idle]
    /\ writer = 0

AddPage ==
    \E k \in 1..MaxBatch, text \in Texts :
        /\ Exists(World, "A")
        /\ CountOf(World, "A") >= PageStart
        /\ CountOf(World, "A") + k <= MaxPageItems
        /\ Do(add_items_to_collection(World, "A", PageBatch(CountOf(World, "A"), k, text),
                                      InputHeap, "none"))

NextPage ==
    \/ AddPage
    \/ Search
    \/ DeleteCollection
    \/ ListItems
    \/ HasCollection
    \/ Query
    \/ Get

SpecPage == InitPage /\ [][NextPage]_vars

----------------------------------------------------------------------------
(* Two callers on one adapter instance.  A method is no longer one step: a   *)
(* caller takes one step per remote call of the method it is inside, and the *)
(* other caller's steps fall in between.  self.index is read when a call's   *)
(* arguments are built, so each step uses the index cached at that moment.   *)
(* The methods are add_items_to_collection, search and delete.               *)

RaceOps == {"add", "search", "delete"}
\* the arguments the callers pass
RaceItems == << Item("x", "t1", NoRef) >>
RaceVectors == << (<<1>>) >>
RaceLimit == 1
RaceIds == <<"x">>

At(p, step) == pc[p].step = step

Goto(p, step) == pc' = [pc EXCEPT ![p].step = step]

\* `if not self.has_collection(collection_name)`: the first call of each of the
\* three methods.  On a miss search and delete return, add goes on to create.
Resolve(p) ==
    \E op \in RaceOps, c \in Names :
        LET r == has_collection(World, c)
            found == r.ret.value
        IN  /\ At(p, "idle")
            /\ stores' = r.w.stores
            /\ nextId' = r.w.nextId
            /\ index' = r.w.index
            /\ created' = r.w.created
            /\ writer' = IF found THEN p ELSE writer
            /\ pc' = [pc EXCEPT ![p] =
                         IF ~found /\ op # "add" THEN Idle
                         ELSE [Idle EXCEPT !.op = op, !.name = c,
                                           !.step = IF ~found THEN "create"
                                                    ELSE IF op = "add" THEN "embed"
                                                    ELSE "send"]]

\* self.create_collection(collection_name) inside add_items_to_collection
Create(p) ==
    LET r == create_collection(World, pc[p].name)
    IN  /\ At(p, "create")
        /\ CanCreate(World)
        /\ stores' = r.w.stores
        /\ nextId' = r.w.nextId
        /\ index' = r.w.index
        /\ created' = r.w.created
        /\ writer' = p
        /\ Goto(p, "embed")

\* openai.Embedding.create(...)
EmbedTexts(p) ==
    /\ At(p, "embed")
    /\ Goto(p, "send")
    /\ UNCHANGED <<stores, nextId, index, created, writer>>

\* the method's call on the items, with index=self.index as it is now
SendResult(p) ==
    LET op == pc[p].op
        embeds == [i \in 1..Len(RaceItems) |-> Embed(RaceItems[i].text)]
    IN  IF op = "add"
        THEN remote_upsert(World, index, SentVectors(build_vectors(RaceItems, embeds, InputHeap))).w
        ELSE IF op = "search"
        THEN remote_search(World, index, RaceVectors[1], RaceLimit, {"metadata"}).w
        ELSE remote_delete_ids(World, index, RaceIds).w

Send(p) ==
    /\ At(p, "send")
    /\ stores' = SendResult(p).stores
    /\ pc' = [pc EXCEPT ![p].step = "done", ![p].used = index, ![p].usedWriter = writer]
    /\ UNCHANGED <<nextId, index, created, writer>>

\* the method returns to its caller
Return(p) ==
    /\ At(p, "done")
    /\ pc' = [pc EXCEPT ![p] = Idle]
    /\ UNCHANGED <<stores, nextId, index, created, writer>>

NextRace ==
    \E p \in Callers :
        \/ Resolve(p)
        \/ Create(p)
        \/ EmbedTexts(p)
        \/ Send(p)
        \/ Return(p)

SpecRace == Init /\ [][NextRace]_vars

----------------------------------------------------------------------------
(* Properties.  Each one is stated over every reachable state and every input *)
(* of the sets above: the state is the one the call starts in, and the call   *)
(* is the method's operator applied to it.                                     *)

\* ids of the listed stores of that name
IdsNamed(w, name) == {w.stores[i].id : i \in {j \in 1..Len(w.stores) : w.stores[j].name = name}}

\* the elements of a sequence
Range(q) == {q[i] : i \in 1..Len(q)}

\* the remote calls of one kind among the calls a method issued
CallsOf(w, kind) == SelectSeq(w.calls, LAMBDA c : c.call = kind)

\* C1: the remote service never lists two stores of the same name.
C1_OneIndexPerName ==
    \A i, j \in 1..Len(stores) : stores[i].name = stores[j].name => i = j

\* C2: add_items_to_collection(C, items) that completes, for a name C no listed
\* store has, leaves exactly one store named C, has_collection(C) then returns
\* True, and the cached index is that store's id.
C2_AddCreatesAndCaches ==
    \A c \in Names, items \in Batches :
        LET r == add_items_to_collection(World, c, items, InputHeap, "none")
        IN  (~Exists(World, c) /\ r.ret = RetNone) =>
                /\ has_collection(After(r.w), c).ret = RetBool(TRUE)
                /\ IdsNamed(r.w, c) = {r.w.index}
                /\ has_collection(After(r.w), c).w.index = r.w.index

C2_Witness ==
    \E c \in Names, items \in Batches :
        LET r == add_items_to_collection(World, c, items, InputHeap, "none")
        IN  /\ ~Exists(World, c)
            /\ index # NoIndex
            /\ Len(items) > 0
            /\ r.ret = RetNone
            /\ r.w.index # index
            /\ Len(ItemsOf(r.w, r.w.index)) > 0

\* C3: has_collection(C) for a name C no listed store has returns False, keeps
\* the cached index, and creates, changes or deletes no store and no item (the
\* only remote call it issues is the listing).
C3_HasCollectionMissFrame ==
    \A c \in Names :
        LET r == has_collection(World, c)
        IN  ~Exists(World, c) =>
                /\ r.ret = RetBool(FALSE)
                /\ r.w.index = index
                /\ r.w.stores = stores
                /\ r.w.nextId = nextId
                /\ r.w.calls = <<[call |-> "list"]>>

C3_Witness ==
    \E c \in Names :
        /\ ~Exists(World, c)
        /\ index # NoIndex
        /\ Len(stores) > 0
        /\ has_collection(World, c).ret = RetBool(FALSE)

\* C4: delete(C, ids=[x]) followed by get(C) never returns id x, from any
\* reachable state and whatever filter accompanies the ids.
C4_DeleteThenGet ==
    \A c \in Names, x \in Ids, filter \in DeleteFilters :
        LET d == delete(World, c, Some(<<x>>), filter)
            g == get(After(d.w), c)
        IN  g.ret.kind = "GetResult" => x \notin Range(g.ret.ids[1])

C4_Witness ==
    \E c \in Names, x \in Ids, filter \in DeleteFilters :
        LET before == get(World, c)
            d == delete(World, c, Some(<<x>>), filter)
            g == get(After(d.w), c)
        IN  /\ before.ret.kind = "GetResult"
            /\ x \in Range(before.ret.ids[1])
            /\ TruthyDict(filter)
            /\ g.ret.kind = "GetResult"
            /\ x \notin Range(g.ret.ids[1])

\* C5: after reset(), has_collection(C) returns False for every name C that a
\* listed store had before it: reset deletes every listed store, whoever
\* created it.
C5_ResetDeletesAll ==
    LET r == reset(World)
    IN  /\ r.w.stores = <<>>
        /\ \A c \in Names :
              Exists(World, c) => has_collection(After(r.w), c).ret = RetBool(FALSE)

C5_Witness ==
    LET r == reset(World)
    IN  /\ \E i, j \in 1..Len(stores) : stores[i].id \in created /\ stores[j].id \notin created
        /\ \E c \in Names :
              /\ Exists(World, c)
              /\ has_collection(World, c).ret = RetBool(TRUE)
              /\ has_collection(After(r.w), c).ret = RetBool(FALSE)

\* the metadata dict the caller gave with an item ({} when it gave none)
GivenMeta(item) == IF item.metadata = NoRef THEN EmptyDict ELSE InputHeap[item.metadata]

DistinctIds(items) == \A i, j \in 1..Len(items) : items[i].id = items[j].id => i = j

\* C6: an item inserted with text T and metadata M is listed, by list_items
\* and by get, with text T and with metadata M less the reserved "text" key
\* (the ids of one batch being distinct).
C6_RoundTrip ==
    \A c \in Names, items \in Batches :
        LET r == add_items_to_collection(World, c, items, InputHeap, "none")
            l == list_items(After(r.w), c).ret.value
            g == get(After(r.w), c).ret
        IN  (r.ret = RetNone /\ DistinctIds(items)) =>
                \A i \in 1..Len(items) :
                    /\ \A k \in 1..Len(l) :
                          l[k].id = items[i].id =>
                              /\ l[k].text = items[i].text
                              /\ l[k].metadata = DictWithout(GivenMeta(items[i]), ReservedKey)
                    /\ \A k \in 1..Len(g.ids[1]) :
                          g.ids[1][k] = items[i].id =>
                              /\ g.documents[1][k] = items[i].text
                              /\ g.metadatas[1][k] = DictWithout(GivenMeta(items[i]), ReservedKey)

\* C7: every item query(C, filter) returns has each filter key in its metadata,
\* with the filter's value, whatever that value is (None included).
C7_QueryMatchesAll ==
    \A c \in Names, filter \in Filters, limit \in QueryLimits :
        LET q == query(World, c, filter, limit).ret
        IN  q.kind = "GetResult" =>
                \A i \in 1..Len(q.metadatas[1]) :
                    \A k \in DOMAIN filter :
                        /\ k \in DOMAIN q.metadatas[1][i]
                        /\ q.metadatas[1][i][k] = filter[k]

\* C8 as stated: for a listed collection, search issues exactly one remote
\* search call, with vectors[0] and top_k = limit, however many vectors it is
\* given.
C8_OneSearchCallAlways ==
    \A c \in Names, vectors \in VectorLists, limit \in SearchLimits :
        LET r == search(World, c, vectors, limit)
        IN  Exists(World, c) =>
                /\ Len(CallsOf(r.w, "search")) = 1
                /\ CallsOf(r.w, "search")[1].vector = vectors[1]
                /\ CallsOf(r.w, "search")[1].top_k = limit

\* C8 amended: for a listed collection and at least one vector, search issues
\* exactly one remote search call, on the collection's store, with vectors[0]
\* and top_k = limit; with no vector it raises IndexError after the listing and
\* issues no search call.
C8_OneSearchCall ==
    \A c \in Names, vectors \in VectorLists, limit \in SearchLimits :
        LET r == search(World, c, vectors, limit)
        IN  Exists(World, c) =>
                IF Len(vectors) = 0
                THEN r.ret = Raised("IndexError") /\ CallsOf(r.w, "search") = <<>>
                ELSE /\ r.ret.kind = "SearchResult"
                     /\ CallsOf(r.w, "search") =
                            << [call |-> "search", index |-> r.w.index, vector |-> vectors[1],
                                top_k |-> limit, include |-> {"metadata"}] >>
                     /\ r.w.index \in IdsNamed(World, c)

C8_Witness ==
    \E c \in Names, vectors \in VectorLists, limit \in SearchLimits :
        LET r == search(World, c, vectors, limit)
        IN  /\ Exists(World, c)
            /\ Len(vectors) = 2
            /\ vectors[1] # vectors[2]
            /\ r.ret.kind = "SearchResult"
            /\ Len(r.ret.ids[1]) > 0
            /\ Len(CallsOf(r.w, "search")) = 1

\* the provider hits of a search with that top_k on the store the name resolves to
HitsOf(w, c, top_k) == Prefix(ItemsOf(w, has_collection(w, c).w.index), top_k)

\* C9: in a search result ids, distances, documents and metadatas have one
\* entry per provider hit, and in a get or query result ids, documents and
\* metadatas have one entry per returned item; entry i of each list describes
\* the same item.
C9_ParallelSequences ==
    /\ \A c \in Names, vectors \in VectorLists, limit \in SearchLimits :
          LET r == search(World, c, vectors, limit).ret
              hits == HitsOf(World, c, limit)
          IN  r.kind = "SearchResult" =>
                  /\ Len(r.ids) = 1 /\ Len(r.distances) = 1
                  /\ Len(r.documents) = 1 /\ Len(r.metadatas) = 1
                  /\ Len(r.ids[1]) = Len(hits)
                  /\ Len(r.distances[1]) = Len(hits)
                  /\ Len(r.documents[1]) = Len(hits)
                  /\ Len(r.metadatas[1]) = Len(hits)
                  /\ \A i \in 1..Len(hits) :
                        /\ r.ids[1][i] = hits[i].id
                        /\ r.distances[1][i] = Score(vectors[1], hits[i].values)
                        /\ r.documents[1][i] = DictGet(hits[i].metadata, ReservedKey)
                        /\ r.metadatas[1][i] = DictWithout(hits[i].metadata, ReservedKey)
    /\ \A c \in Names :
          LET g == get(World, c).ret
              hits == HitsOf(World, c, PageSize)
          IN  g.kind = "GetResult" =>
                  /\ Len(g.ids) = 1 /\ Len(g.documents) = 1 /\ Len(g.metadatas) = 1
                  /\ Len(g.ids[1]) = Len(hits)
                  /\ Len(g.documents[1]) = Len(hits)
                  /\ Len(g.metadatas[1]) = Len(hits)
                  /\ \A i \in 1..Len(hits) :
                        /\ g.ids[1][i] = hits[i].id
                        /\ g.documents[1][i] = DictGet(hits[i].metadata, ReservedKey)
                        /\ g.metadatas[1][i] = DictWithout(hits[i].metadata, ReservedKey)
    /\ \A c \in Names, filter \in Filters, limit \in QueryLimits :
          LET q == query(World, c, filter, limit).ret
              hits == HitsOf(World, c, PageSize)
          IN  q.kind = "GetResult" =>
                  /\ Len(q.ids) = 1 /\ Len(q.documents) = 1 /\ Len(q.metadatas) = 1
                  /\ Len(q.documents[1]) = Len(q.ids[1])
                  /\ Len(q.metadatas[1]) = Len(q.ids[1])
                  /\ \A i \in 1..Len(q.ids[1]) :
                        \E k \in 1..Len(hits) :
                            /\ q.ids[1][i] = hits[k].id
                            /\ q.documents[1][i] = DictGet(hits[k].metadata, ReservedKey)
                            /\ q.metadatas[1][i] = DictWithout(hits[k].metadata, ReservedKey)

C9_Witness ==
    \E c \in Names, vectors \in VectorLists, limit \in SearchLimits :
        LET r == search(World, c, vectors, limit).ret
            g == get(World, c).ret
            q == query(World, c, [k \in {"a"} |-> "v1"], NoneOpt).ret
        IN  /\ r.kind = "SearchResult" /\ Len(r.ids[1]) = 2
            /\ g.kind = "GetResult" /\ Len(g.ids[1]) = 2
            /\ g.metadatas[1][1] = EmptyDict
            /\ q.kind = "GetResult" /\ Len(q.ids[1]) = 1

Min(a, b) == IF a < b THEN a ELSE b

OnlyListed(r) ==
    /\ r.w.stores = stores
    /\ r.w.nextId = nextId
    /\ r.w.index = index
    /\ r.w.calls = <<[call |-> "list"]>>

\* the items list_items would give for the store the name resolves to
Listed(w, c) == list_items(w, c).ret.value

\* C11: for a name C no listed store has, search, query and get return None,
\* list_items returns [], delete and delete_collection return None, and each of
\* them issues the listing call only and leaves every store as it was.  For a
\* listed C, get returns None when no item is listed and query returns None
\* when no listed item is left after filter and limit; neither ever returns a
\* result with empty lists.
C11_AbsentResults ==
    \A c \in Names :
        IF ~Exists(World, c)
        THEN /\ \A vectors \in VectorLists, limit \in SearchLimits :
                   LET r == search(World, c, vectors, limit)
                   IN  r.ret = RetNone /\ OnlyListed(r)
             /\ \A filter \in Filters, limit \in QueryLimits :
                   LET r == query(World, c, filter, limit)
                   IN  r.ret = RetNone /\ OnlyListed(r)
             /\ get(World, c).ret = RetNone /\ OnlyListed(get(World, c))
             /\ list_items(World, c).ret = RetList(<<>>) /\ OnlyListed(list_items(World, c))
             /\ \A ids \in DeleteIds, filter \in DeleteFilters :
                   LET r == delete(World, c, ids, filter)
                   IN  r.ret = RetNone /\ OnlyListed(r)
             /\ delete_collection(World, c).ret = RetNone
             /\ OnlyListed(delete_collection(World, c))
        ELSE /\ LET g == get(World, c).ret
                 IN  IF Len(Listed(World, c)) = 0 THEN g = RetNone
                     ELSE g.kind = "GetResult" /\ Len(g.ids[1]) > 0
             /\ \A filter \in Filters, limit \in QueryLimits :
                   LET q == query(World, c, filter, limit).ret
                       none == \A i \in 1..Len(Listed(World, c)) :
                                   ~Matches(Listed(World, c)[i].metadata, filter)
                   IN  /\ none => q = RetNone
                       /\ q = RetNone \/ (q.kind = "GetResult" /\ Len(q.ids[1]) > 0)

C11_Witness ==
    \E c, other \in Names :
        /\ ~Exists(World, c)
        /\ index # NoIndex
        /\ Exists(World, other)
        /\ Len(Listed(World, other)) > 0
        /\ get(World, c).ret = RetNone
        /\ delete(World, c, Some(<<"x">>), NoneOpt).w.calls = <<[call |-> "list"]>>
        /\ get(World, other).ret.kind = "GetResult"
        /\ query(World, other, [k \in {"a", "b"} |-> IF k = "a" THEN "v1" ELSE "v3"], NoneOpt).ret
              = RetNone
        /\ query(World, other, EmptyDict, Some(0)).ret = RetNone

\* the remote calls on a store's items among the calls a method issued
ItemCalls(w) ==
    SelectSeq(w.calls, LAMBDA c : c.call \in {"upsert", "search", "delete_ids", "delete_filter"})

\* every item call the method issued went to a store that is listed under the name
AddressedTo(r, c) ==
    LET after == r.w
        named == IdsNamed(after, c)
    IN  \A k \in 1..Len(after.calls) :
            after.calls[k].call \in {"upsert", "search", "delete_ids", "delete_filter"}
                => after.calls[k].index \in named

\* C12: with one caller, whatever was called before and whatever index is
\* cached, every upsert, search and delete call a method issues for the name C
\* goes to a store listed under the name C (found by the listing of that same
\* method, or created by it).
C12_CallsGoToNamedIndex ==
    \A c \in Names :
        /\ \A fail \in {"none", "upsert"} : \A items \in BatchesFor(fail) :
              AddressedTo(add_items_to_collection(World, c, items, InputHeap, fail), c)
        /\ \A items \in ShortBatches :
              /\ AddressedTo(insert(World, c, items, InputHeap, "none"), c)
              /\ AddressedTo(upsert(World, c, items, InputHeap, "none"), c)
        /\ \A vectors \in VectorLists, limit \in SearchLimits :
              AddressedTo(search(World, c, vectors, limit), c)
        /\ AddressedTo(delete_collection(World, c), c)
        /\ AddressedTo(list_items(World, c), c)
        /\ AddressedTo(get(World, c), c)
        /\ \A filter \in Filters, limit \in QueryLimits :
              AddressedTo(query(World, c, filter, limit), c)
        /\ \A ids \in DeleteIds, filter \in DeleteFilters :
              AddressedTo(delete(World, c, ids, filter), c)

\* the cached index is of a store that is gone (reset) or listed under another
\* name, and the calls for C reach C's store all the same
C12_Witness ==
    \E c \in Names :
        LET a == add_items_to_collection(World, c, <<Item("x", "t1", NoRef)>>, InputHeap, "none")
            g == search(After(a.w), c, <<(<<1>>)>>, 1)
            d == delete(After(a.w), c, Some(<<"x">>), NoneOpt)
        IN  /\ index # NoIndex
            /\ index \notin IdsNamed(World, c)
            /\ Len(ItemCalls(a.w)) = 1 /\ AddressedTo(a, c)
            /\ Len(ItemCalls(g.w)) = 1 /\ AddressedTo(g, c)
            /\ Len(ItemCalls(d.w)) = 1 /\ AddressedTo(d, c)
            /\ ItemCalls(a.w)[1].index # index

\* the item call caller p has just issued went to a store not listed under the
\* name p's method was given
Misaddressed(p) ==
    /\ At(p, "done")
    /\ pc[p].used \notin IdsNamed(World, pc[p].name)

\* C13: with two callers whose methods interleave between remote calls, a
\* method called for the name A can send its upsert, search or delete to the
\* store of another name B (C13_Witness is such a state); whenever that
\* happens, the index the call used was cached by the other caller, after the
\* method's own resolution.
C13_WrongIndexByOverwrite ==
    \A p \in Callers :
        Misaddressed(p) => pc[p].usedWriter \in Callers \ {p}

C13_Witness ==
    \E p \in Callers :
        /\ Misaddressed(p)
        /\ pc[p].op = "add"
        /\ pc[p].name = "A"
        /\ pc[p].used \in IdsNamed(World, "B")
        /\ pc[p].usedWriter # p
        /\ ItemsOf(World, pc[p].used) # <<>>
        /\ \A id \in IdsNamed(World, "A") : ItemsOf(World, id) = <<>>

\* ids of the listed stores
StoreIds(w) == {w.stores[i].id : i \in 1..Len(w.stores)}

\* C14: add_items_to_collection whose embedding call or upsert call fails
\* raises the provider's error and stores no item: every store listed before
\* holds the items it held, and no store is deleted.  When the name had no
\* store before the call, the store the call created is still listed after it,
\* empty, has_collection(C) returns True and the cached index is its id.
C14_FailureKeepsCreatedStore ==
    \A c \in Names, fail \in {"embed", "upsert"} : \A items \in BatchesFor(fail) :
        LET r == add_items_to_collection(World, c, items, InputHeap, fail)
            h == has_collection(After(r.w), c)
        IN  /\ r.ret = Raised("ProviderError")
            /\ \A i \in 1..Len(stores) : i <= Len(r.w.stores) /\ r.w.stores[i] = stores[i]
            /\ IF Exists(World, c)
               THEN r.w.stores = stores
               ELSE /\ Len(r.w.stores) = Len(stores) + 1
                    /\ r.w.index \notin StoreIds(World)
                    /\ IdsNamed(r.w, c) = {r.w.index}
                    /\ ItemsOf(r.w, r.w.index) = <<>>
                    /\ h.ret = RetBool(TRUE)
                    /\ h.w.index = r.w.index
                    /\ list_items(After(r.w), c).ret = RetList(<<>>)

C14_Witness ==
    \E c \in Names, fail \in {"embed", "upsert"} : \E items \in BatchesFor(fail) :
        LET r == add_items_to_collection(World, c, items, InputHeap, fail)
        IN  /\ ~Exists(World, c)
            /\ Len(stores) > 0
            /\ index # NoIndex
            /\ fail = "upsert"
            /\ Len(items) = 1
            /\ r.ret = Raised("ProviderError")
            /\ Len(CallsOf(r.w, "create")) = 1
            /\ Len(CallsOf(r.w, "upsert")) = 1
            /\ has_collection(After(r.w), c).ret = RetBool(TRUE)
            /\ r.w.index # index

\* the ids of a sequence of items
IdSet(items) == {items[i].id : i \in 1..Len(items)}

\* C15: delete_collection(C) on a listed collection removes from C's store
\* every item list_items(C) returned just before it; when the store held at
\* most PageSize items, get(C) then returns None.  Every other store holds the
\* items it held, and no store is created or deleted.
C15_DeleteCollectionRemovesListed ==
    \A c \in Names :
        LET before == Listed(World, c)
            d == delete_collection(World, c)
            left == ItemsOf(d.w, d.w.index)
        IN  Exists(World, c) =>
                /\ d.ret = RetNone
                /\ IdSet(before) \cap IdSet(left) = {}
                /\ Len(left) = CountOf(World, c) - Len(before)
                /\ CountOf(World, c) <= PageSize => get(After(d.w), c).ret = RetNone
                /\ Len(d.w.stores) = Len(stores)
                /\ \A i \in 1..Len(stores) :
                      /\ d.w.stores[i].id = stores[i].id
                      /\ d.w.stores[i].name = stores[i].name
                      /\ stores[i].id # d.w.index => d.w.stores[i].items = stores[i].items

C15_Witness ==
    \E c, other \in Names :
        LET d == delete_collection(World, c)
        IN  /\ Exists(World, c) /\ Exists(World, other) /\ other # c
            /\ CountOf(World, c) > 1
            /\ CountOf(World, c) <= PageSize
            /\ CountOf(World, other) > 0
            /\ get(World, c).ret.kind = "GetResult"
            /\ get(After(d.w), c).ret = RetNone
            /\ get(After(d.w), other).ret = get(World, other).ret

\* C16: delete_collection(C) on a listed collection deletes no store: the
\* listing of the stores is the same after it, has_collection(C) returns True
\* and resolves to the same id, and add_items_to_collection(C, items) after it
\* issues no create call and upserts into that same store.
C16_DeleteCollectionKeepsIndex ==
    \A c \in Names :
        LET h == has_collection(World, c)
            d == delete_collection(World, c)
            h2 == has_collection(After(d.w), c)
        IN  Exists(World, c) =>
                /\ remote_list(d.w).data = remote_list(World).data
                /\ CallsOf(d.w, "delete_store") = <<>>
                /\ h2.ret = RetBool(TRUE)
                /\ h2.w.index = h.w.index
                /\ \A items \in Batches :
                      LET a == add_items_to_collection(After(d.w), c, items, InputHeap, "none")
                      IN  /\ a.ret = RetNone
                          /\ CallsOf(a.w, "create") = <<>>
                          /\ a.w.nextId = nextId
                          /\ Len(CallsOf(a.w, "upsert")) = 1
                          /\ CallsOf(a.w, "upsert")[1].index = h.w.index
                          /\ remote_list(a.w).data = remote_list(World).data

C16_Witness ==
    \E c \in Names :
        LET h == has_collection(World, c)
            d == delete_collection(World, c)
            a == add_items_to_collection(After(d.w), c, <<Item("y", "t2", NoRef)>>, InputHeap, "none")
        IN  /\ Exists(World, c)
            /\ Len(ItemsOf(World, h.w.index)) = 2
            /\ Len(CallsOf(d.w, "delete_ids")) = 1
            /\ ItemsOf(d.w, h.w.index) = <<>>
            /\ Len(ItemsOf(a.w, h.w.index)) = 1
            /\ a.w.index = h.w.index
            /\ Len(a.w.stores) = Len(stores)

\* C17: delete(C, ids, filter) on a listed collection issues, after the
\* listing, the delete call by ids alone when ids is a non-empty list
\* (whatever the filter), the delete call by filter alone when ids is None or
\* empty and filter is a non-empty dict, and no call when neither is; in the
\* last case every store holds the items it held.
C17_AtMostOneDeleteCall ==
    \A c \in Names, ids \in DeleteIds, filter \in DeleteFilters :
        LET h == has_collection(World, c)
            r == delete(World, c, ids, filter)
            issued == SubSeq(r.w.calls, 2, Len(r.w.calls))
        IN  Exists(World, c) =>
                /\ r.ret = RetNone
                /\ r.w.calls[1] = [call |-> "list"]
                /\ Len(issued) <= 1
                /\ IF TruthyList(ids)
                   THEN issued = << [call |-> "delete_ids", index |-> h.w.index, ids |-> ids[1]] >>
                   ELSE IF TruthyDict(filter)
                   THEN issued = << [call |-> "delete_filter", index |-> h.w.index,
                                     filter |-> filter[1]] >>
                   ELSE issued = <<>> /\ r.w.stores = stores

C17_Witness ==
    \E c \in Names :
        LET h == has_collection(World, c)
            f == Some([k \in {"a"} |-> "v1"])
            byIds == delete(World, c, Some(<<"y">>), f)
            byFilter == delete(World, c, Some(<<>>), f)
            neither == delete(World, c, Some(<<>>), Some(EmptyDict))
        IN  /\ Exists(World, c)
            /\ IdSet(ItemsOf(World, h.w.index)) = {"x", "y"}
            /\ \A i \in 1..2 : ProviderMatch(ItemsOf(World, h.w.index)[i].metadata, f[1])
            /\ IdSet(ItemsOf(byIds.w, h.w.index)) = {"x"}
            /\ Len(CallsOf(byIds.w, "delete_filter")) = 0
            /\ ItemsOf(byFilter.w, h.w.index) = <<>>
            /\ Len(neither.w.calls) = 1

\* the listed items of C that match the filter, in listing order
Matching(w, c, filter) == SelectSeq(Listed(w, c), LAMBDA it : Matches(it.metadata, filter))

\* what query returns for a sequence of items
Returned(items) == IF Len(items) = 0 THEN RetNone ELSE GetResult(items)

\* C18 as stated: query(C, filter, limit) with a limit, whatever it is,
\* returns the first `limit` matching items in listing order and never more
\* than `limit` (None for a limit of 0); without a limit it returns every
\* matching item of the listed page.
C18_LimitAlways ==
    \A c \in Names, filter \in Filters, limit \in QueryLimits :
        LET q == query(World, c, filter, limit).ret
            all == Matching(World, c, filter)
        IN  Exists(World, c) =>
                IF limit = NoneOpt THEN q = Returned(all)
                ELSE /\ q = Returned(Prefix(all, limit[1]))
                     /\ q # RetNone => Len(q.ids[1]) <= limit[1]

\* C18 amended: with a limit of 0 or more, query returns the first `limit`
\* matching items in listing order, never more than `limit`, and None for a
\* limit of 0; without a limit it returns every matching item of the listed
\* page; with a negative limit -n it returns the matching items less the last
\* n of them (None when n or fewer match).
C18_Limit ==
    \A c \in Names, filter \in Filters, limit \in QueryLimits :
        LET q == query(World, c, filter, limit).ret
            all == Matching(World, c, filter)
        IN  Exists(World, c) =>
                IF limit = NoneOpt THEN q = Returned(all)
                ELSE IF limit[1] >= 0
                THEN /\ q = Returned(Prefix(all, limit[1]))
                     /\ q # RetNone => Len(q.ids[1]) <= limit[1]
                     /\ limit[1] = 0 => q = RetNone
                ELSE q = Returned(SubSeq(all, 1, Len(all) + limit[1]))

C18_Witness ==
    \E c \in Names :
        LET f == [k \in {"a"} |-> "v1"]
            one == query(World, c, f, Some(1)).ret
        IN  /\ Exists(World, c)
            /\ Len(Listed(World, c)) = 2
            /\ ~Matches(Listed(World, c)[1].metadata, f)
            /\ Matches(Listed(World, c)[2].metadata, f)
            /\ one.kind = "GetResult"
            /\ one.ids[1] = << Listed(World, c)[2].id >>
            /\ Len(query(World, c, EmptyDict, Some(1)).ret.ids[1]) = 1
            /\ Len(query(World, c, EmptyDict, NoneOpt).ret.ids[1]) = 2
            /\ query(World, c, EmptyDict, Some(0)).ret = RetNone
            /\ Len(query(World, c, EmptyDict, Some(-1)).ret.ids[1]) = 1

====
